---- MODULE Spec2Model ----
(***************************************************************************)
(* Campaign dispatch and delivery tracking of the WhatsApp automation      *)
(* tool: the /broadcast route and processRealBroadcast of                  *)
(* api/routes/whatsapp.ts, the acknowledgement handlers of                 *)
(* source/client.ts, the /api/broadcast/start route of api/server.ts with  *)
(* processDirectBroadcast and the job queue, the cancel request of the     *)
(* web client (web/src/services/api.ts), the document broadcast of         *)
(* api/routes/document.ts and source/sender.ts, the message tracker of     *)
(* source/message-tracker.ts, and the reconnection of the client           *)
(* (source/client.ts, the logout route of whatsapp.ts).                    *)
(*                                                                         *)
(* Node runs every handler to its next await without interruption, so one  *)
(* action is one such run: a route handler up to its first await, the      *)
(* continuation of a settled client.sendMessage, the continuation of the   *)
(* pacing sleep, one poll of waitForClient, one event handler.             *)
(***************************************************************************)
EXTENDS Integers, Sequences, FiniteSets, TLC

\* ------------------------------------------------------------------ bounds
\* campaigns created through POST /broadcast (whatsapp.ts)
MaxCampaigns == 2
\* campaigns created through POST /api/broadcast/start (server.ts)
MaxDirect == 2
\* recipients of all campaigns of one run together
MaxRecipients == 2
\* message_ack events the transport emits in one run
MaxAcks == 2
\* timers pending at a time (auto-reconnect, logout route)
MaxTimers == 2
\* calls of client.initialize() and of reinitializeClient in progress at a time
MaxInits == 2

\* ------------------------------------------------- program constants
\* waitForClient(60000) in both dispatch loops
WaitTimeout == 60000
\* setInterval(..., 1000) in waitForClient
PollInterval == 1000

\* ------------------------------------------------------ sample inputs
Digits == {"0", "1", "2", "3", "4", "5", "6", "7", "8", "9"}

\* contact.phone as a sequence of characters
Phone10 == <<"9", "8", "7", "6", "5", "4", "3", "2", "1", "0">>
Phone12 == <<"+", "9", "1", " ", "9", "8", "7", "6", "5", "0", "0", "0", "0", "1">>
PhoneShort == <<"1", "2", "3", "4", "5">>
PhoneEmpty == <<>>
PhoneLong == <<"9", "1", "9", "8", "7", "6", "5", "4", "3", "2", "1", "0", "1", "2", "3", "4">>

Contact(n, p) == [name |-> n, phone |-> p]

\* the contact lists (getCurrentContacts() after filtering) the routes are
\* exercised with: one contact, distinct contacts, contacts sharing a name,
\* contacts sharing a phone, an empty address, an address too short, an
\* address too long
Audiences ==
    { <<Contact("A", Phone10)>>,
      <<Contact("A", PhoneShort)>>,
      <<Contact("A", PhoneLong)>>,
      <<Contact("A", Phone10), Contact("B", Phone12)>>,
      <<Contact("A", Phone10), Contact("A", Phone12)>>,
      <<Contact("A", Phone10), Contact("B", Phone10)>>,
      <<Contact("A", Phone10), Contact("B", PhoneEmpty)>>,
      <<Contact("B", PhoneEmpty), Contact("A", Phone10)>>,
      <<Contact("A", Phone10), Contact("A", PhoneEmpty)>> }

\* the filters match no contact
NoContacts == <<>>

\* ------------------------------------------------------------ state
VARIABLES
    isReady,               \* client.ts: let isReady
    campaigns,             \* whatsapp.ts: let campaigns (array)
    campaignIdCounter,     \* whatsapp.ts: let campaignIdCounter
    messageRecipientMap,   \* global.messageRecipientMap
    srvCampaigns,          \* server.ts: let campaigns (Map)
    now,                   \* the clock read by Date.now()
    loops,                 \* the running invocations of the dispatch functions
    nextMsg,               \* next message id the transport assigns
    io,                    \* what was emitted on the socket server
    sendLog,               \* per invocation, the calls of client.sendMessage
    ackCount,              \* message_ack events handled so far
    acked,                 \* per message, the ack level an orderly transport reached
    http,                  \* the response to the latest request of the operator
    cancelLog,             \* per invocation, the sends made when its cancel was asked
    broadcastQueue,        \* server.ts: let broadcastQueue
    jobs,                  \* the send-broadcast jobs waiting in the queue
    messageStatusDb,       \* message-tracker.ts: const messageStatusDb
    conn                   \* client.ts: isConnecting, isInitialized, the calls of
                           \* client.initialize() not finished, the timers set

vars == <<isReady, campaigns, campaignIdCounter, messageRecipientMap,
          srvCampaigns, now, loops, nextMsg, io, sendLog, ackCount, acked,
                   http, cancelLog, broadcastQueue, jobs, messageStatusDb, conn>>

EventNames == {"campaign-update", "campaign-started", "campaign-progress",
               "campaign-completed", "campaign-failed"}

Emit(e, name) == [e EXCEPT !.count[name] = @ + 1]

\* res.status(code).json({ error }) / res.json({ success: true, ... })
\* (targets: the number of contacts a 200 answer reports)
Response(route, code, error, targets) ==
    [route |-> route, status |-> code, error |-> error, targets |-> targets]

\* --------------------------------------------------- address handling
IsDigit(ch) == ch \in Digits

\* contact.phone?.toString().replace(/\D/g, "")
CleanPhone(phone) == SelectSeq(phone, IsDigit)

\* if (cleanPhone.length === 10) cleanPhone = "91" + cleanPhone
AddCountryCode(clean) == IF Len(clean) = 10 THEN <<"9", "1">> \o clean ELSE clean

\* mutant of PhoneClass: without the upper limit on the length
PhoneClassOpen(phone) ==
    LET clean == CleanPhone(phone)
        full == AddCountryCode(clean)
    IN  IF Len(clean) = 0 THEN "none"
        ELSE IF Len(full) < 12 THEN "invalid"
        ELSE "ok"

\* "none": no digits at all; "invalid": length out of 12..15; "ok"
PhoneClass(phone) ==
    LET clean == CleanPhone(phone)
        full == AddCountryCode(clean)
    IN  IF Len(clean) = 0 THEN "none"
        ELSE IF Len(full) < 12 \/ Len(full) > 15 THEN "invalid"
        ELSE "ok"

\* cleanPhone + "@c.us"
ChatId(phone) == AddCountryCode(CleanPhone(phone)) \o <<"@c.us">>

\* ------------------------------------------------ recipient lookup
\* Array.prototype.find: the index of the first recipient with the phone or
\* the name looked for, 0 when there is none
FindRecipient(recipients, phone, name) ==
    LET hits == { j \in 1..Len(recipients) :
                    recipients[j].phone = phone \/ recipients[j].name = name }
    IN  IF hits = {} THEN 0
        ELSE CHOOSE j \in hits : \A k \in hits : j <= k

\* campaigns.find(c => c.id === id): index in the array, 0 when absent
FindCampaign(cs, id) ==
    LET hits == { k \in 1..Len(cs) : cs[k].id = id }
    IN  IF hits = {} THEN 0
        ELSE CHOOSE k \in hits : \A h \in hits : k <= h

\* ---------------------------------------------- campaign construction
NewRecipient(contact) ==
    [name |-> contact.name, phone |-> contact.phone, status |-> "pending",
     error |-> "null", messageId |-> 0]

NewCampaign(id, contacts) ==
    [id |-> id,
     status |-> "running",
     progress |-> [sent |-> 0, failed |-> 0, total |-> Len(contacts),
                   errors |-> <<>>],
     recipients |-> [j \in 1..Len(contacts) |-> NewRecipient(contacts[j])]]

\* the catch block and the two address rejections of the loop body:
\* progress.failed++, progress.errors.push, the found recipient marked failed
FailRecipient(camp, contact, kind, err) ==
    LET r == FindRecipient(camp.recipients, contact.phone, contact.name)
        c1 == [camp EXCEPT !.progress.failed = @ + 1,
                           !.progress.errors = Append(@, kind)]
    IN  IF r = 0 THEN c1
        ELSE [c1 EXCEPT !.recipients[r].status = "failed",
                        !.recipients[r].error = err]

\* the statements after `await client.sendMessage` up to the pacing sleep
MarkSent(camp, contact, msg) ==
    LET r == FindRecipient(camp.recipients, contact.phone, contact.name)
        c1 == [camp EXCEPT !.progress.sent = @ + 1]
    IN  IF r = 0 THEN c1
        ELSE [c1 EXCEPT !.recipients[r].status = "sent",
                        !.recipients[r].error = "null",
                        !.recipients[r].messageId = msg]

\* ------------------------------------------------------ dispatch loops
\* for (let i = 0; ...; i++)
NextIndex(i) == i + 1

\* mutant of Step: a send is made for the contact before the current one
StepRepeat(camp, pc, i) ==
    [camp |-> camp, pc |-> pc,
     i |-> IF pc = "sending" /\ i > 1 THEN i - 1 ELSE i]

\* how a run of a dispatch function ended: the campaign object, where the
\* function is suspended ("sending", "waiting") or that it returned ("done"),
\* and the loop variable
Step(camp, pc, i) == [camp |-> camp, pc |-> pc, i |-> i]

\* processRealBroadcast from contact i up to its next await: the address
\* rejections and the readiness throw are caught inside the loop body and
\* the loop continues at once; a send suspends it; past the last contact the
\* campaign is completed
RECURSIVE RealRun(_, _, _, _)
RealRun(camp, contacts, i, ready) ==
    IF i > Len(contacts)
    THEN Step([camp EXCEPT !.status = "completed"], "done", i)
    ELSE LET contact == contacts[i]
             cls == PhoneClass(contact.phone)
         IN  IF cls = "none"
             THEN RealRun(FailRecipient(camp, contact, "No phone number",
                                        "No phone number provided"),
                          contacts, NextIndex(i), ready)
             ELSE IF cls = "invalid"
             THEN RealRun(FailRecipient(camp, contact, "Invalid phone number",
                                        "Invalid phone number"),
                          contacts, NextIndex(i), ready)
             ELSE IF ~ready
             THEN RealRun(FailRecipient(camp, contact, "Failed to send",
                              "WhatsApp client disconnected during broadcast"),
                          contacts, NextIndex(i), ready)
             ELSE Step(camp, "sending", i)

\* the head of processRealBroadcast: wait for the client when it is not ready
StartReal(camp, contacts, ready) ==
    IF ~ready THEN Step(camp, "waiting", 0)
    ELSE RealRun(camp, contacts, 1, ready)

\* server.ts campaigns carry no recipient records, only the counters
NewDirectCampaign(id, contacts) ==
    [id |-> id,
     status |-> "queued",
     progress |-> [total |-> Len(contacts), sent |-> 0, failed |-> 0,
                   errors |-> <<>>]]

DirectFail(camp, kind) ==
    [camp EXCEPT !.progress.failed = @ + 1, !.progress.errors = Append(@, kind)]

\* processDirectBroadcast from contact i up to its next await
RECURSIVE DirectRun(_, _, _, _)
DirectRun(camp, contacts, i, ready) ==
    IF i > Len(contacts)
    THEN Step([camp EXCEPT !.status = "completed"], "done", i)
    ELSE LET cls == PhoneClass(contacts[i].phone)
         IN  IF cls = "none"
             THEN DirectRun(DirectFail(camp, "No phone number"),
                            contacts, NextIndex(i), ready)
             ELSE IF cls = "invalid"
             THEN DirectRun(DirectFail(camp, "Invalid phone number"),
                            contacts, NextIndex(i), ready)
             ELSE IF ~ready
             THEN DirectRun(DirectFail(camp, "Failed to send"),
                            contacts, NextIndex(i), ready)
             ELSE Step(camp, "sending", i)

\* sendDocumentToContacts (sender.ts) from contact i up to its next await:
\* a contact without a valid address is skipped; the client's readiness is
\* not looked at; there is no campaign object
RECURSIVE DocRun(_, _, _, _)
DocRun(camp, contacts, i, ready) ==
    IF i > Len(contacts)
    THEN Step(camp, "done", i)
    ELSE IF PhoneClass(contacts[i].phone) # "ok"
    THEN DocRun(camp, contacts, NextIndex(i), ready)
    ELSE Step(camp, "sending", i)

Run(kind, camp, contacts, i, ready) ==
    IF kind = "real" THEN RealRun(camp, contacts, i, ready)
    ELSE IF kind = "direct" THEN DirectRun(camp, contacts, i, ready)
    ELSE DocRun(camp, contacts, i, ready)

\* campaigns.get(id) of server.ts. srv holds the campaign objects in the
\* order of their creation; campaigns.set(id, campaign) makes the object
\* created last under an id the one the Map holds for it. 0 when absent.
CampaignsGet(srv, id) ==
    LET hits == { k \in 1..Len(srv) : srv[k].id = id }
    IN  IF hits = {} THEN 0
        ELSE CHOOSE k \in hits : \A h \in hits : h <= k

\* one invocation of a dispatch function: the campaign object it holds
\* (ref: position in its store), its contacts argument, where it is
\* suspended, its loop variable, the message of the send it awaits, the
\* polls its waitForClient has made (forgotten once the wait resolved), and
\* whether the interval timer of its waitForClient is set
NewLoop(kind, ref, contacts) ==
    [kind |-> kind, ref |-> ref, contacts |-> contacts, pc |-> "start",
     i |-> 0, msg |-> 0, polls |-> 0, timer |-> FALSE]

\* the invocation after a run that ended as r; a send that was started is
\* given the transport's next message id; a run that ended in waitForClient
\* has set its interval timer, a run that began with the resolution of
\* waitForClient has cleared it
LoopAfter(loop, r, msgId) ==
    [loop EXCEPT !.pc = r.pc, !.i = r.i, !.polls = 0,
                 !.msg = IF r.pc = "sending" THEN msgId ELSE 0,
                 !.timer = (r.pc = "waiting")]

\* the record of the calls of client.sendMessage: the contact index, the
\* chat id passed, and whether the call has returned or thrown
LogAfter(log, loop, r) ==
    IF r.pc = "sending"
    THEN Append(log, [i |-> r.i, chatId |-> ChatId(loop.contacts[r.i].phone),
                      settled |-> FALSE, ready |-> isReady])
    ELSE log

\* the call awaited last has returned or thrown
Settle(log) == [log EXCEPT ![Len(log)].settled = TRUE]

MsgAfter(r, msgId) == IF r.pc = "sending" THEN msgId + 1 ELSE msgId

\* campaign-completed is emitted by processDirectBroadcast only
EmitDone(e, kind, r) ==
    IF kind = "direct" /\ r.pc = "done" /\ r.camp.status = "completed"
    THEN Emit(e, "campaign-completed") ELSE e

\* a document broadcast has no campaign
NoCampaign ==
    [id |-> 0, status |-> "none",
     progress |-> [total |-> 0, sent |-> 0, failed |-> 0, errors |-> <<>>]]

\* the upload-document route answers when sendDocumentToContacts has
\* returned; the broadcast routes have answered before
AnswerDone(loop, r) ==
    IF loop.kind = "document" /\ r.pc = "done"
    THEN Response("upload-document", 200, "none", Len(loop.contacts))
    ELSE http

CampOf(l) ==
    IF loops[l].kind = "real" THEN campaigns[loops[l].ref]
    ELSE IF loops[l].kind = "direct" THEN srvCampaigns[loops[l].ref]
    ELSE NoCampaign

\* the stores after invocation l left its campaign object as camp
StoreCamp(l, camp) ==
    IF loops[l].kind = "real"
    THEN /\ campaigns' = [campaigns EXCEPT ![loops[l].ref] = camp]
         /\ UNCHANGED srvCampaigns
    ELSE IF loops[l].kind = "direct"
    THEN /\ srvCampaigns' = [srvCampaigns EXCEPT ![loops[l].ref] = camp]
         /\ UNCHANGED campaigns
    ELSE UNCHANGED <<campaigns, srvCampaigns>>

\* invocation l ran on and ended as r; log is its record of calls so far
Resume(l, r, e, log) ==
    /\ StoreCamp(l, r.camp)
    /\ loops' = [loops EXCEPT ![l] = LoopAfter(@, r, nextMsg)]
    /\ sendLog' = [sendLog EXCEPT ![l] = LogAfter(log, loops[l], r)]
    /\ nextMsg' = MsgAfter(r, nextMsg)
    /\ io' = EmitDone(e, loops[l].kind, r)
    /\ http' = AnswerDone(loops[l], r)

\* ----------------------------------------------------- acknowledgements
\* client.ts message_ack: the status computed from the ack level
AckStatus(ack) ==
    IF ack = 4 THEN "read"
    ELSE IF ack = 3 THEN "delivered"
    ELSE IF ack = 2 THEN "sent"
    ELSE "pending"

Tracked(map, msg) == msg \in DOMAIN map

\* mutant of AckTarget: without the not-tracked guard, an unknown message
\* falls through to the first recipient of the first campaign
AckTargetFallback(cs, map, msg) ==
    IF ~Tracked(map, msg)
    THEN IF Len(cs) > 0 THEN <<1, 1>> ELSE <<0, 0>>
    ELSE LET info == map[msg]
             k == FindCampaign(cs, info.campaignId)
         IN  IF k = 0 THEN <<0, 0>>
             ELSE LET j == FindRecipient(cs[k].recipients, info.recipientPhone,
                                         info.recipientName)
                  IN  IF j = 0 THEN <<0, 0>> ELSE <<k, j>>

\* the recipient onMessageStatusUpdate updates for message msg: <<k, j>>,
\* campaign k of the array and recipient j of it, or <<0, 0>> when the
\* message is not tracked or nothing is found
AckTarget(cs, map, msg) ==
    IF ~Tracked(map, msg) THEN <<0, 0>>
    ELSE LET info == map[msg]
             k == FindCampaign(cs, info.campaignId)
         IN  IF k = 0 THEN <<0, 0>>
             ELSE LET j == FindRecipient(cs[k].recipients, info.recipientPhone,
                                         info.recipientName)
                  IN  IF j = 0 THEN <<0, 0>> ELSE <<k, j>>

\* mutant of onMessageStatusUpdate: a sent acknowledgement is also counted
\* in progress.sent
onMessageStatusUpdateCounting(cs, map, e, msg, status) ==
    LET t == AckTarget(cs, map, msg)
    IN  IF t = <<0, 0>> THEN [campaigns |-> cs, io |-> e]
        ELSE [campaigns |->
                  [cs EXCEPT ![t[1]].recipients[t[2]].status = status,
                             ![t[1]].progress.sent =
                                 IF status = "sent" THEN @ + 1 ELSE @],
              io |-> Emit(e, "campaign-update")]

\* global.onMessageStatusUpdate: the campaigns array and the emissions after
\* the handler ran for (msg, status)
onMessageStatusUpdate(cs, map, e, msg, status) ==
    LET t == AckTarget(cs, map, msg)
    IN  IF t = <<0, 0>> THEN [campaigns |-> cs, io |-> e]
        ELSE [campaigns |-> [cs EXCEPT ![t[1]].recipients[t[2]].status = status],
              io |-> Emit(e, "campaign-update")]

\* ------------------------------------------------------ the connection
\* client.ts at module load (isConnecting, isInitialized false) and
\* server.ts initializeWhatsApp, which calls client.initialize() from the
\* listen callback: inits counts the calls of client.initialize() made
\* without await that have not ended in ready or failed; calls holds the
\* invocations of reinitializeClient in progress
NewConn ==
    [isConnecting |-> FALSE, isInitialized |-> FALSE, inits |-> 1,
     calls |-> <<>>, reconnect |-> 0, logoutTimers |-> 0, retryTimers |-> 0]

\* an invocation of reinitializeClient in its 2 s wait
Delaying(call) == call.pc = "delay"

Initializing(call) == call.pc = "init"

\* the calls of client.initialize() that have not finished
Outstanding(c) == c.inits + Len(SelectSeq(c.calls, Initializing))

\* the timers of the 'disconnected' handler and of the logout route
Timers(c) == c.reconnect + c.logoutTimers + c.retryTimers

Without(s, n) == SubSeq(s, 1, n - 1) \o SubSeq(s, n + 1, Len(s))

\* the 'ready' handler: the initializations in progress have finished
ReadyConn(c) ==
    [c EXCEPT !.isConnecting = FALSE, !.isInitialized = TRUE, !.inits = 0,
              !.calls = SelectSeq(@, Delaying)]

\* reinitializeClient up to its first await
reinitializeClient(c, attempt) ==
    IF c.isConnecting THEN c
    ELSE [c EXCEPT !.isConnecting = TRUE,
                   !.calls = Append(@, [attempt |-> attempt, pc |-> "delay"])]

\* --------------------------------------------------------------- actions
\* the recipients of the campaigns created so far
RECURSIVE TotalContacts(_)
TotalContacts(ls) ==
    IF ls = <<>> THEN 0 ELSE Len(Head(ls).contacts) + TotalContacts(Tail(ls))

Init ==
    /\ isReady = FALSE
    /\ campaigns = <<>>
    /\ campaignIdCounter = 1
    /\ messageRecipientMap = <<>>
    /\ srvCampaigns = <<>>
    /\ now = 0
    /\ loops = <<>>
    /\ nextMsg = 1
    /\ io = [count |-> [n \in EventNames |-> 0], failed |-> {}]
    /\ sendLog = <<>>
    /\ ackCount = 0
    /\ acked = <<>>
    /\ http = Response("none", 0, "none", 0)
    /\ cancelLog = <<>>
    /\ broadcastQueue = "null"
    /\ jobs = <<>>
    /\ messageStatusDb = <<>>
    /\ conn = NewConn

\* client.on("ready")
OnReady ==
    /\ isReady' = TRUE
    /\ conn' = ReadyConn(conn)
    /\ UNCHANGED <<campaigns, campaignIdCounter, messageRecipientMap,
                   srvCampaigns, now, loops, nextMsg,
                   io, sendLog, ackCount, acked,
                   http, cancelLog, broadcastQueue, jobs, messageStatusDb>>

\* client.on("qr"), client.on("auth_failure"); what client.on("disconnected")
\* does to isReady (what it does to the connection is Disconnected)
OnNotReady ==
    /\ isReady' = FALSE
    /\ UNCHANGED <<campaigns, campaignIdCounter, messageRecipientMap,
                   srvCampaigns, now, loops, nextMsg,
                   io, sendLog, ackCount, acked,
                   http, cancelLog, broadcastQueue, jobs, messageStatusDb, conn>>

\* POST /broadcast with an audience that resolves to contacts: the campaign
\* is created and processRealBroadcast runs to its first await inside the
\* handler
Broadcast(contacts) ==
    /\ Len(campaigns) < MaxCampaigns
    /\ TotalContacts(loops) + Len(contacts) <= MaxRecipients
    /\ isReady
    /\ Len(contacts) # 0
    /\ LET id == campaignIdCounter
           ref == Len(campaigns) + 1
           r == StartReal(NewCampaign(id, contacts), contacts, isReady)
           loop == NewLoop("real", ref, contacts)
       IN  /\ campaignIdCounter' = campaignIdCounter + 1
           /\ campaigns' = Append(campaigns, r.camp)
           /\ loops' = Append(loops, LoopAfter(loop, r, nextMsg))
           /\ sendLog' = Append(sendLog, LogAfter(<<>>, loop, r))
           /\ nextMsg' = MsgAfter(r, nextMsg)
    /\ http' = Response("broadcast", 200, "none", Len(contacts))
    /\ UNCHANGED <<isReady, messageRecipientMap, srvCampaigns, now, io, ackCount,
                   acked, cancelLog, broadcastQueue, jobs, messageStatusDb, conn>>

\* POST /api/broadcast/start without a job queue: the campaign is stored
\* under campaign-<Date.now()> and processDirectBroadcast runs to its first
\* await (the dynamic import) inside the handler
StartDirect(contacts) ==
    /\ Len(srvCampaigns) < MaxDirect
    /\ TotalContacts(loops) + Len(contacts) <= MaxRecipients
    /\ Len(contacts) # 0
    /\ broadcastQueue = "null"
    /\ \E dt \in {0, 1} :
         LET t == now + dt
             ref == Len(srvCampaigns) + 1
             camp == [NewDirectCampaign(t, contacts) EXCEPT !.status = "running"]
             loop == [NewLoop("direct", ref, contacts) EXCEPT !.pc = "import"]
         IN  /\ now' = t
             /\ srvCampaigns' = Append(srvCampaigns, camp)
             /\ loops' = Append(loops, loop)
             /\ sendLog' = Append(sendLog, <<>>)
             /\ io' = Emit(io, "campaign-started")
    /\ http' = Response("start", 200, "none", Len(contacts))
    /\ UNCHANGED <<isReady, campaigns, campaignIdCounter, messageRecipientMap,
                   nextMsg, ackCount, acked, cancelLog, broadcastQueue, jobs, messageStatusDb, conn>>

\* mutant of WaitRejected: the rejection is caught inside the loop, which
\* fails every contact and completes the campaign
WaitRejectedSwallowed(l) ==
    /\ StoreCamp(l, Run(loops[l].kind, CampOf(l), loops[l].contacts, 1, FALSE).camp)
    /\ loops' = [loops EXCEPT ![l].pc = "done", ![l].polls = @ + 1,
                              ![l].timer = FALSE]
    /\ io' = io
    /\ UNCHANGED <<sendLog, nextMsg, http>>

\* waitForClient clears its timer and rejects; the rejection reaches the
\* outer catch of the dispatch function: the campaign is failed; processDirectBroadcast also emits
\* campaign-failed with the error's message; the upload-document route
\* answers 500 with it
WaitRejected(l) ==
    /\ StoreCamp(l, [CampOf(l) EXCEPT !.status = "failed"])
    /\ loops' = [loops EXCEPT ![l].pc = "done", ![l].polls = @ + 1,
                              ![l].timer = FALSE]
    /\ io' = IF loops[l].kind = "direct"
             THEN [Emit(io, "campaign-failed") EXCEPT !.failed = @ \cup
                     {<<CampOf(l).id, "WhatsApp client not ready within timeout">>}]
             ELSE io
    /\ http' = IF loops[l].kind = "document"
               THEN Response("upload-document", 500,
                             "WhatsApp client not ready within timeout", 0)
               ELSE http
    /\ UNCHANGED <<sendLog, nextMsg>>

\* processDirectBroadcast after `await import('../source/client')`
ImportDone(l) ==
    /\ loops[l].pc = "import"
    /\ IF ~isReady
       THEN /\ loops' = [loops EXCEPT ![l].pc = "waiting", ![l].timer = TRUE]
            /\ UNCHANGED <<campaigns, srvCampaigns, sendLog, nextMsg, io, http>>
       ELSE Resume(l, Run(loops[l].kind, CampOf(l), loops[l].contacts, 1, isReady),
                   io, sendLog[l])
    /\ UNCHANGED <<isReady, campaignIdCounter, messageRecipientMap,
                   now, ackCount, acked,
                   cancelLog, broadcastQueue, jobs, messageStatusDb, conn>>

\* mutant of TimedOut: the elapsed time is compared with the poll interval
TimedOutEarly(elapsed) == elapsed > PollInterval

\* Date.now() - startTime > timeout
TimedOut(elapsed) == elapsed > WaitTimeout

\* one firing of waitForClient's interval timer, late ms after it was due
WaitPoll(l) ==
    /\ loops[l].timer
    /\ \E late \in {0, 1} :
         LET elapsed == (loops[l].polls + 1) * PollInterval + late
         IN  IF isReady
             THEN Resume(l, Run(loops[l].kind, CampOf(l), loops[l].contacts, 1,
                                isReady), io, sendLog[l])
             ELSE IF TimedOut(elapsed)
             THEN WaitRejected(l)
             ELSE /\ loops' = [loops EXCEPT ![l].polls = @ + 1]
                  /\ UNCHANGED <<campaigns, srvCampaigns, sendLog, nextMsg, io, http>>
    /\ UNCHANGED <<isReady, campaignIdCounter, messageRecipientMap,
                   now, ackCount, acked,
                   cancelLog, broadcastQueue, jobs, messageStatusDb, conn>>

\* the map entry written after a send of processRealBroadcast returned
MapAfterSend(map, loop, camp, msg) ==
    LET contact == loop.contacts[loop.i]
    IN  IF loop.kind = "real"
           /\ FindRecipient(camp.recipients, contact.phone, contact.name) # 0
        THEN (msg :> [campaignId |-> camp.id, recipientPhone |-> contact.phone,
                      recipientName |-> contact.name]) @@ map
        ELSE map

\* client.sendMessage returned: the loop counts the send, marks the recipient
\* and starts the pacing sleep
SendResolve(l) ==
    /\ loops[l].pc = "sending"
    /\ LET loop == loops[l]
           contact == loop.contacts[loop.i]
       IN  /\ IF loop.kind = "real"
              THEN StoreCamp(l, MarkSent(CampOf(l), contact, loop.msg))
              ELSE IF loop.kind = "direct"
              THEN StoreCamp(l, [CampOf(l) EXCEPT !.progress.sent = @ + 1])
              ELSE StoreCamp(l, CampOf(l))
           /\ messageRecipientMap' =
                  MapAfterSend(messageRecipientMap, loop, CampOf(l), loop.msg)
           /\ io' = IF loop.kind = "direct" THEN Emit(io, "campaign-progress")
                    ELSE io
           /\ loops' = [loops EXCEPT ![l].pc = "sleeping", ![l].msg = 0]
           /\ sendLog' = [sendLog EXCEPT ![l] = Settle(@)]
    /\ UNCHANGED <<isReady, campaignIdCounter, now, nextMsg, ackCount, acked,
                   http, cancelLog, broadcastQueue, jobs, messageStatusDb, conn>>

\* client.sendMessage threw: the catch block records the failure (in
\* sender.ts it only logs it) and the loop goes on with the next contact
\* without sleeping
SendReject(l) ==
    /\ loops[l].pc = "sending"
    /\ LET loop == loops[l]
           failed == IF loop.kind = "real"
                     THEN FailRecipient(CampOf(l), loop.contacts[loop.i],
                                        "Failed to send", "send error")
                     ELSE IF loop.kind = "direct"
                     THEN DirectFail(CampOf(l), "Failed to send")
                     ELSE CampOf(l)
       IN  Resume(l, Run(loop.kind, failed, loop.contacts, NextIndex(loop.i),
                         isReady), io, Settle(sendLog[l]))
    /\ UNCHANGED <<isReady, campaignIdCounter, messageRecipientMap,
                   now, ackCount, acked,
                   cancelLog, broadcastQueue, jobs, messageStatusDb, conn>>

\* the pacing sleep (3 s, 5 s in server.ts, 3 s in sender.ts) is over
SleepDone(l) ==
    /\ loops[l].pc = "sleeping"
    /\ Resume(l, Run(loops[l].kind, CampOf(l), loops[l].contacts,
                     NextIndex(loops[l].i), isReady), io, sendLog[l])
    /\ UNCHANGED <<isReady, campaignIdCounter, messageRecipientMap,
                   now, ackCount, acked,
                   cancelLog, broadcastQueue, jobs, messageStatusDb, conn>>

\* client.on('message_ack') of client.ts for message msg at level ack: the
\* status is handed to onMessageStatusUpdate. The handler also stores it in
\* global.messageStatusUpdates, a map nothing reads, which is not kept here.
HandleAck(msg, ack) ==
    LET status == AckStatus(ack)
        res == onMessageStatusUpdate(campaigns, messageRecipientMap, io, msg, status)
    IN  /\ campaigns' = res.campaigns
        /\ io' = res.io
        /\ ackCount' = ackCount + 1
        /\ UNCHANGED <<isReady, campaignIdCounter, messageRecipientMap,
                       srvCampaigns, now, loops, nextMsg, sendLog,
                       http, cancelLog, broadcastQueue, jobs, conn>>

\* the transport acknowledges a message at any level and in any order: one
\* a dispatch loop sent or is sending (1 .. nextMsg - 1), or one the
\* campaigns never sent (0)
MessageAck(msg, ack) ==
    /\ ackCount < MaxAcks
    /\ HandleAck(msg, ack)
    /\ UNCHANGED <<acked, messageStatusDb>>

\* mutant of BroadcastRejected: the campaign id is taken before the audience
\* is looked at
BroadcastRejectedCounting(contacts) ==
    /\ ~isReady \/ Len(contacts) = 0
    /\ http' = IF ~isReady
               THEN Response("broadcast", 400, "WhatsApp client is not ready", 0)
               ELSE Response("broadcast", 400, "No contacts found", 0)
    /\ campaignIdCounter' = IF isReady THEN campaignIdCounter + 1
                            ELSE campaignIdCounter
    /\ UNCHANGED <<isReady, campaigns, messageRecipientMap,
                   srvCampaigns, now, loops, nextMsg, io, sendLog, ackCount,
                   acked, cancelLog, broadcastQueue, jobs, messageStatusDb, conn>>

\* POST /broadcast answered 400: the client is not ready, or the filters
\* leave no contact; the handler returns before it creates anything
BroadcastRejected(contacts) ==
    /\ ~isReady \/ Len(contacts) = 0
    /\ http' = IF ~isReady
               THEN Response("broadcast", 400, "WhatsApp client is not ready", 0)
               ELSE Response("broadcast", 400, "No contacts found", 0)
    /\ UNCHANGED <<isReady, campaigns, campaignIdCounter, messageRecipientMap,
                   srvCampaigns, now, loops, nextMsg, io, sendLog, ackCount,
                   acked, cancelLog, broadcastQueue, jobs, messageStatusDb, conn>>

\* POST /api/broadcast/start answered 400: the filters leave no contact
StartRejected(contacts) ==
    /\ Len(contacts) = 0
    /\ http' = Response("start", 400, "No contacts match the filters", 0)
    /\ UNCHANGED <<isReady, campaigns, campaignIdCounter, messageRecipientMap,
                   srvCampaigns, now, loops, nextMsg, io, sendLog, ackCount,
                   acked, cancelLog, broadcastQueue, jobs, messageStatusDb, conn>>

\* ApiService.cancelCampaign posts /broadcast/cancel/<id> for a campaign that
\* is being dispatched. No route of server.ts or of the whatsapp router
\* handles the request: it is answered 404 and the campaign and its dispatch
\* loop are as before. cancelLog keeps where the loop was when the operator
\* asked.
CancelCampaign(l) ==
    /\ l \notin DOMAIN cancelLog
    /\ loops[l].pc # "done"
    /\ http' = Response("cancel", 404, "Cannot POST", 0)
    /\ cancelLog' = (l :> [pc |-> loops[l].pc, i |-> loops[l].i,
                           sends |-> Len(sendLog[l])]) @@ cancelLog
    /\ UNCHANGED <<isReady, campaigns, campaignIdCounter, messageRecipientMap,
                   srvCampaigns, now, loops, nextMsg, io, sendLog, ackCount,
                   acked, broadcastQueue, jobs, messageStatusDb, conn>>

Next ==
    \/ OnReady
    \/ OnNotReady
    \/ \E contacts \in Audiences \cup {NoContacts} : Broadcast(contacts)
    \/ \E contacts \in Audiences \cup {NoContacts} : BroadcastRejected(contacts)
    \/ \E l \in 1..Len(loops) : SendResolve(l)
    \/ \E l \in 1..Len(loops) : SendReject(l)
    \/ \E l \in 1..Len(loops) : SleepDone(l)
    \/ \E msg \in 0..(nextMsg - 1), ack \in 0..4 : MessageAck(msg, ack)

Spec == Init /\ [][Next]_vars

\* ---- the same, with an operator who may ask once for the cancellation of
\* a campaign that is being dispatched
NextCancel ==
    \/ Next
    \/ \E l \in 1..Len(loops) : CancelCampaign(l)

CancelSpec == Init /\ [][NextCancel]_vars

\* ---- the direct dispatch of server.ts (no job queue); the operator starts
\* a campaign when no earlier one is still waiting for the client
NoneWaiting == \A l \in 1..Len(loops) : loops[l].pc \notin {"import", "waiting"}

NextDirect ==
    \/ OnReady
    \/ OnNotReady
    \/ \E contacts \in Audiences \cup {NoContacts} :
           NoneWaiting /\ StartDirect(contacts)
    \/ \E contacts \in Audiences \cup {NoContacts} : StartRejected(contacts)
    \/ \E l \in 1..Len(loops) : ImportDone(l)
    \/ \E l \in 1..Len(loops) : WaitPoll(l)
    \/ \E l \in 1..Len(loops) : SendResolve(l)
    \/ \E l \in 1..Len(loops) : SendReject(l)
    \/ \E l \in 1..Len(loops) : SleepDone(l)

DirectSpec == Init /\ [][NextDirect]_vars

\* ---- server.ts with or without Redis
\* let broadcastQueue = null, the value the variable has while the module
\* is loaded
QueueAtLoad == "null"

\* `if (broadcastQueue) { broadcastQueue.process('send-broadcast', ...) }`
\* is a statement of the module body: it runs once, while the module is
\* loaded. initializeRedis, which creates the queue, runs later, from the
\* callback of server.listen. The processor is registered only if the queue
\* exists when the statement runs.
ProcessorRegistered == QueueAtLoad # "null"

\* initializeRedis: the queue is created when Redis answers the ping
initializeRedis(redisUp) == IF redisUp THEN "queue" ELSE "null"

\* the server after the callback of server.listen has run initializeRedis
InitQueue ==
    /\ isReady = FALSE
    /\ campaigns = <<>>
    /\ campaignIdCounter = 1
    /\ messageRecipientMap = <<>>
    /\ srvCampaigns = <<>>
    /\ now = 0
    /\ loops = <<>>
    /\ nextMsg = 1
    /\ io = [count |-> [n \in EventNames |-> 0], failed |-> {}]
    /\ sendLog = <<>>
    /\ ackCount = 0
    /\ acked = <<>>
    /\ http = Response("none", 0, "none", 0)
    /\ cancelLog = <<>>
    /\ \E redisUp \in BOOLEAN : broadcastQueue = initializeRedis(redisUp)
    /\ jobs = <<>>
    /\ messageStatusDb = <<>>
    /\ conn = NewConn

\* POST /api/broadcast/start with a job queue: the campaign is stored
\* queued and a send-broadcast job is added to the queue
StartQueued(contacts) ==
    /\ Len(srvCampaigns) < MaxDirect
    /\ TotalContacts(loops) + TotalContacts(jobs) + Len(contacts) <= MaxRecipients
    /\ Len(contacts) # 0
    /\ broadcastQueue = "queue"
    /\ \E dt \in {0, 1} :
         LET t == now + dt
         IN  /\ now' = t
             /\ srvCampaigns' = Append(srvCampaigns, NewDirectCampaign(t, contacts))
             /\ jobs' = Append(jobs, [campaignId |-> t, contacts |-> contacts])
    /\ http' = Response("start", 200, "none", Len(contacts))
    /\ UNCHANGED <<isReady, campaigns, campaignIdCounter, messageRecipientMap,
                   loops, nextMsg, io, sendLog, ackCount, acked, cancelLog,
                   broadcastQueue, messageStatusDb, conn>>

\* no action takes a job from the queue: the processor of lines 828-921 is
\* not registered (ProcessorRegistered)
NextQueue ==
    \/ NextDirect
    \/ \E contacts \in Audiences \cup {NoContacts} : StartQueued(contacts)

QueueSpec == InitQueue /\ [][NextQueue]_vars

\* ------------------------------------------------- document broadcasts
\* POST /api/upload-document with a file and filters that match contacts:
\* the handler waits for the client if it is not ready, then
\* sendDocumentToContacts runs to its first await
UploadDocument(contacts) ==
    /\ TotalContacts(loops) + Len(contacts) <= MaxRecipients
    /\ Len(contacts) # 0
    /\ LET loop == NewLoop("document", 0, contacts)
           r == IF ~isReady THEN Step(NoCampaign, "waiting", 0)
                ELSE Run("document", NoCampaign, contacts, 1, isReady)
       IN  /\ loops' = Append(loops, LoopAfter(loop, r, nextMsg))
           /\ sendLog' = Append(sendLog, LogAfter(<<>>, loop, r))
           /\ nextMsg' = MsgAfter(r, nextMsg)
           /\ http' = AnswerDone(loop, r)
    /\ UNCHANGED <<isReady, campaigns, campaignIdCounter, messageRecipientMap,
                   srvCampaigns, now, io, ackCount, acked, cancelLog,
                   broadcastQueue, jobs, messageStatusDb, conn>>

\* POST /api/upload-document answered 400: the filters match no contact
UploadRejected(contacts) ==
    /\ Len(contacts) = 0
    /\ http' = Response("upload-document", 400, "No contacts matched the filters", 0)
    /\ UNCHANGED <<isReady, campaigns, campaignIdCounter, messageRecipientMap,
                   srvCampaigns, now, loops, nextMsg, io, sendLog, ackCount,
                   acked, cancelLog, broadcastQueue, jobs, messageStatusDb, conn>>

NextDocument ==
    \/ OnReady
    \/ OnNotReady
    \/ NoneWaiting /\ \E contacts \in Audiences \cup {NoContacts} :
                          UploadDocument(contacts)
    \/ \E contacts \in Audiences \cup {NoContacts} : UploadRejected(contacts)
    \/ \E l \in 1..Len(loops) : WaitPoll(l)
    \/ \E l \in 1..Len(loops) : SendResolve(l)
    \/ \E l \in 1..Len(loops) : SendReject(l)
    \/ \E l \in 1..Len(loops) : SleepDone(l)

DocumentSpec == Init /\ [][NextDocument]_vars

\* --------------------------------------------------------- reconnection
\* client.on("disconnected"): unless the reason is LOGOUT a 5 s timer is set
Disconnected(reason) ==
    /\ reason = "LOGOUT" \/ Timers(conn) < MaxTimers
    /\ isReady' = FALSE
    /\ conn' = IF reason # "LOGOUT"
               THEN [conn EXCEPT !.isConnecting = FALSE, !.reconnect = @ + 1]
               ELSE [conn EXCEPT !.isConnecting = FALSE, !.isInitialized = FALSE]
    /\ UNCHANGED <<campaigns, campaignIdCounter, messageRecipientMap,
                   srvCampaigns, now, loops, nextMsg, io, sendLog, ackCount,
                   acked, http, cancelLog, broadcastQueue, jobs, messageStatusDb>>

\* the 5 s timer of the 'disconnected' handler fires
ReconnectTimer ==
    /\ conn.reconnect > 0
    /\ Outstanding(conn) < MaxInits
    /\ conn' = IF ~conn.isConnecting /\ conn.isInitialized
               THEN [conn EXCEPT !.reconnect = @ - 1, !.isConnecting = TRUE,
                                 !.inits = @ + 1]
               ELSE [conn EXCEPT !.reconnect = @ - 1]
    /\ UNCHANGED <<isReady, campaigns, campaignIdCounter, messageRecipientMap,
                   srvCampaigns, now, loops, nextMsg, io, sendLog, ackCount,
                   acked, http, cancelLog, broadcastQueue, jobs, messageStatusDb>>

\* POST /logout and client.logout() returned (the client had a session to
\* end): the route answers and sets the 5 s timer of the reinitialization
Logout ==
    /\ isReady
    /\ Timers(conn) < MaxTimers
    /\ conn' = [conn EXCEPT !.logoutTimers = @ + 1]
    /\ http' = Response("logout", 200, "none", 0)
    /\ UNCHANGED <<isReady, campaigns, campaignIdCounter, messageRecipientMap,
                   srvCampaigns, now, loops, nextMsg, io, sendLog, ackCount,
                   acked, cancelLog, broadcastQueue, jobs, messageStatusDb>>

\* POST /logout and client.logout() threw
LogoutFailed ==
    /\ http' = Response("logout", 500, "Failed to logout", 0)
    /\ UNCHANGED <<isReady, campaigns, campaignIdCounter, messageRecipientMap,
                   srvCampaigns, now, loops, nextMsg, io, sendLog, ackCount,
                   acked, cancelLog, broadcastQueue, jobs, messageStatusDb, conn>>

\* the 5 s timer of the logout route fires: reinitializeClient is called
LogoutTimer ==
    /\ conn.logoutTimers > 0
    /\ Len(conn.calls) < MaxInits
    /\ conn' = reinitializeClient([conn EXCEPT !.logoutTimers = @ - 1], "first")
    /\ UNCHANGED <<isReady, campaigns, campaignIdCounter, messageRecipientMap,
                   srvCampaigns, now, loops, nextMsg, io, sendLog, ackCount,
                   acked, http, cancelLog, broadcastQueue, jobs, messageStatusDb>>

\* the 10 s timer set after a failed reinitialization fires
RetryTimer ==
    /\ conn.retryTimers > 0
    /\ Len(conn.calls) < MaxInits
    /\ conn' = reinitializeClient([conn EXCEPT !.retryTimers = @ - 1], "retry")
    /\ UNCHANGED <<isReady, campaigns, campaignIdCounter, messageRecipientMap,
                   srvCampaigns, now, loops, nextMsg, io, sendLog, ackCount,
                   acked, http, cancelLog, broadcastQueue, jobs, messageStatusDb>>

\* reinitializeClient after its 2 s wait: client.initialize() is called
ReinitDelayDone(n) ==
    /\ conn.calls[n].pc = "delay"
    /\ Outstanding(conn) < MaxInits
    /\ conn' = [conn EXCEPT !.calls[n].pc = "init"]
    /\ UNCHANGED <<isReady, campaigns, campaignIdCounter, messageRecipientMap,
                   srvCampaigns, now, loops, nextMsg, io, sendLog, ackCount,
                   acked, http, cancelLog, broadcastQueue, jobs, messageStatusDb>>

\* client.initialize() awaited by reinitializeClient threw: the catch block
\* resets isConnecting and rethrows; the logout route sets its retry timer
\* after the first attempt and gives up after the second
InitializeFailed(n) ==
    /\ conn.calls[n].pc = "init"
    /\ conn.calls[n].attempt = "retry" \/ Timers(conn) < MaxTimers
    /\ conn' = [conn EXCEPT !.isConnecting = FALSE,
                            !.calls = Without(@, n),
                            !.retryTimers = IF conn.calls[n].attempt = "first"
                                            THEN @ + 1 ELSE @]
    /\ UNCHANGED <<isReady, campaigns, campaignIdCounter, messageRecipientMap,
                   srvCampaigns, now, loops, nextMsg, io, sendLog, ackCount,
                   acked, http, cancelLog, broadcastQueue, jobs, messageStatusDb>>

\* a client.initialize() called without await (server.ts initializeWhatsApp,
\* the auto-reconnect timer) failed: nothing handles the rejection
InitializeFailedUnhandled ==
    /\ conn.inits > 0
    /\ conn' = [conn EXCEPT !.inits = @ - 1]
    /\ UNCHANGED <<isReady, campaigns, campaignIdCounter, messageRecipientMap,
                   srvCampaigns, now, loops, nextMsg, io, sendLog, ackCount,
                   acked, http, cancelLog, broadcastQueue, jobs, messageStatusDb>>

NextClient ==
    \/ OnReady
    \/ OnNotReady
    \/ \E reason \in {"LOGOUT", "NAVIGATION"} : Disconnected(reason)
    \/ ReconnectTimer
    \/ Logout
    \/ LogoutFailed
    \/ LogoutTimer
    \/ RetryTimer
    \/ \E n \in 1..Len(conn.calls) : ReinitDelayDone(n)
    \/ \E n \in 1..Len(conn.calls) : InitializeFailed(n)
    \/ InitializeFailedUnhandled

ClientSpec == Init /\ [][NextClient]_vars

\* ------------------------------------------------- the message tracker
\* message-tracker.ts message_ack: the status computed from the ack level
TrackerStatus(ack) ==
    IF ack = 1 THEN "delivered"
    ELSE IF ack = 2 THEN "read"
    ELSE IF ack = 3 THEN "played"
    ELSE "sent"

\* messageStatusDb[id] = status
TrackAck(db, msg, ack) == (msg :> TrackerStatus(ack)) @@ db

\* message-tracker.ts message_create: a message not yet in the map is sent
TrackCreate(db, msg) == IF msg \in DOMAIN db THEN db ELSE (msg :> "sent") @@ db

\* GET /api/message-status/:messageId
StatusOf(db, msg) == IF msg \in DOMAIN db THEN db[msg] ELSE "pending"

\* the transport emits message_ack for message msg at level ack: the
\* handler of client.ts and the handler of message-tracker.ts both run;
\* acked keeps the level of the latest event of each message
AckEmitted(msg, ack) ==
    /\ ackCount < MaxAcks
    /\ HandleAck(msg, ack)
    /\ acked' = (msg :> ack) @@ acked
    /\ messageStatusDb' = TrackAck(messageStatusDb, msg, ack)

\* the transport emits message_create for a message the client sends
MessageCreate(msg) ==
    /\ messageStatusDb' = TrackCreate(messageStatusDb, msg)
    /\ UNCHANGED <<isReady, campaigns, campaignIdCounter, messageRecipientMap,
                   srvCampaigns, now, loops, nextMsg, io, sendLog, ackCount,
                   acked, http, cancelLog, broadcastQueue, jobs, conn>>

NextAck ==
    \/ OnReady
    \/ OnNotReady
    \/ \E contacts \in Audiences : Broadcast(contacts)
    \/ \E l \in 1..Len(loops) : SendResolve(l)
    \/ \E l \in 1..Len(loops) : SendReject(l)
    \/ \E l \in 1..Len(loops) : SleepDone(l)
    \/ \E msg \in 1..(nextMsg - 1) : MessageCreate(msg)
    \/ \E msg \in 0..(nextMsg - 1), ack \in 0..4 : AckEmitted(msg, ack)

AckSpec == Init /\ [][NextAck]_vars

\* ---- Scenario A: the client is ready and stays ready, every address is
\* valid, every send returns, and the transport acknowledges every message
\* it delivered at the levels 1, 2, 3, 4 in this order
InitHappy ==
    /\ isReady = TRUE
    /\ campaigns = <<>>
    /\ campaignIdCounter = 1
    /\ messageRecipientMap = <<>>
    /\ srvCampaigns = <<>>
    /\ now = 0
    /\ loops = <<>>
    /\ nextMsg = 1
    /\ io = [count |-> [n \in EventNames |-> 0], failed |-> {}]
    /\ sendLog = <<>>
    /\ ackCount = 0
    /\ acked = <<>>
    /\ http = Response("none", 0, "none", 0)
    /\ cancelLog = <<>>
    /\ broadcastQueue = "null"
    /\ jobs = <<>>
    /\ messageStatusDb = <<>>
    /\ conn = NewConn

AllValid(contacts) == \A j \in 1..Len(contacts) : PhoneClass(contacts[j].phone) = "ok"

\* the messages whose send has returned
Delivered == { m \in 1..(nextMsg - 1) : \A l \in 1..Len(loops) : loops[l].msg # m }

AckLevel(m) == IF m \in DOMAIN acked THEN acked[m] ELSE 0

\* the next acknowledgement of a delivered message
AckInOrder(msg) ==
    /\ msg \in Delivered
    /\ AckLevel(msg) < 4
    /\ HandleAck(msg, AckLevel(msg) + 1)
    /\ acked' = (msg :> (AckLevel(msg) + 1)) @@ acked
    /\ UNCHANGED messageStatusDb

NextHappy ==
    \/ \E contacts \in { a \in Audiences : AllValid(a) } : Broadcast(contacts)
    \/ \E l \in 1..Len(loops) : SendResolve(l)
    \/ \E l \in 1..Len(loops) : SleepDone(l)
    \/ \E msg \in 1..(nextMsg - 1) : AckInOrder(msg)

HappySpec == InitHappy /\ [][NextHappy]_vars

\* =============================================================== claims
Pending(camp) ==
    Cardinality({ j \in 1..Len(camp.recipients) :
                    camp.recipients[j].status = "pending" })

RealLoops == { l \in 1..Len(loops) : loops[l].kind = "real" }
DirectLoops == { l \in 1..Len(loops) : loops[l].kind = "direct" }

\* the contact indices invocation l called client.sendMessage for
SentIndices(l) == { sendLog[l][n].i : n \in 1..Len(sendLog[l]) }

\* C1: for every campaign, in every reachable state, progress.sent +
\* progress.failed + (number of recipients whose status is pending) equals
\* progress.total
C1_ProgressAccountsForRecipients ==
    \A k \in 1..Len(campaigns) :
        campaigns[k].progress.sent + campaigns[k].progress.failed
            + Pending(campaigns[k]) = campaigns[k].progress.total

\* C2: no step takes a recipient from read to delivered or sent, from
\* delivered to sent, from any other status back to pending, or out of failed
C2_StatusNeverRegresses ==
    [][\A k \in 1..Len(campaigns) : \A j \in 1..Len(campaigns[k].recipients) :
          LET old == campaigns[k].recipients[j].status
              new == campaigns'[k].recipients[j].status
          IN  /\ old = "read" => new \notin {"delivered", "sent"}
              /\ old = "delivered" => new # "sent"
              /\ old # "pending" => new # "pending"
              /\ old = "failed" => new = "failed"]_vars

\* C3: once the read acknowledgement of a tracked message has made its
\* recipient read, handling the delivered acknowledgement of that message
\* changes nothing: the recipient stays read
C3_DeliveredAfterReadIsNoOp ==
    \A msg \in DOMAIN messageRecipientMap :
        LET t == AckTarget(campaigns, messageRecipientMap, msg)
        IN  (t # <<0, 0>> /\ campaigns[t[1]].recipients[t[2]].status = "read")
            => onMessageStatusUpdate(campaigns, messageRecipientMap, io, msg,
                                     AckStatus(3)).campaigns = campaigns

\* C4: handling the same acknowledgement (same message, same level) a second
\* time leaves every campaign's status, counters and recipient statuses as
\* they are after handling it once
C4_SameAckTwiceIsOnce ==
    \A msg \in 0..(nextMsg - 1), ack \in 0..4 :
        LET once == onMessageStatusUpdate(campaigns, messageRecipientMap, io,
                                          msg, AckStatus(ack))
            twice == onMessageStatusUpdate(once.campaigns, messageRecipientMap,
                                           once.io, msg, AckStatus(ack))
        IN  twice.campaigns = once.campaigns

\* an acknowledgement of a tracked message has been handled
C4_Witness ==
    /\ ackCount > 0
    /\ io.count["campaign-update"] > 0
    /\ \E k \in 1..Len(campaigns) : \E j \in 1..Len(campaigns[k].recipients) :
           campaigns[k].recipients[j].status \in {"delivered", "read"}

\* C5: at most one call of client.sendMessage is in flight at any moment
C5_OneSendInFlight ==
    Cardinality({ l \in 1..Len(loops) : loops[l].pc = "sending" }) <= 1

\* C6: within one campaign the calls of client.sendMessage are made in
\* strictly increasing contact order, each after the one before has returned
\* or thrown, and no contact is sent to twice
C6_SendsInOrderOneAtATime ==
    \A l \in 1..Len(loops) :
        LET log == sendLog[l]
        IN  /\ \A n \in 1..Len(log) : \A m \in 1..Len(log) :
                   n < m => log[n].i < log[m].i
            /\ \A n \in 1..Len(log) : n < Len(log) => log[n].settled
            /\ \A n \in 1..Len(log) :
                   ~log[n].settled => (loops[l].pc = "sending" /\ loops[l].i = log[n].i)

\* a campaign has sent to two contacts, and the second send is in flight
C6_Witness ==
    \E l \in RealLoops :
        /\ Len(sendLog[l]) = 2
        /\ sendLog[l][1].settled
        /\ ~sendLog[l][2].settled

\* every message of the campaign of invocation l has been acknowledged as read
AllRead(l) ==
    \A j \in 1..Len(loops[l].contacts) :
        \E m \in DOMAIN messageRecipientMap :
            /\ messageRecipientMap[m].campaignId = CampOf(l).id
            /\ messageRecipientMap[m].recipientPhone = loops[l].contacts[j].phone
            /\ messageRecipientMap[m].recipientName = loops[l].contacts[j].name
            /\ AckLevel(m) = 4

\* C7: with valid addresses, a ready transport, successful sends and every
\* message acknowledged up to read, the campaign ends completed with
\* sent = total, failed = 0 and every recipient read
C7_HappyPathEndsAllRead ==
    \A l \in RealLoops :
        (loops[l].pc = "done" /\ AllRead(l)) =>
            /\ CampOf(l).status = "completed"
            /\ CampOf(l).progress.sent = CampOf(l).progress.total
            /\ CampOf(l).progress.failed = 0
            /\ \A j \in 1..Len(CampOf(l).recipients) :
                   CampOf(l).recipients[j].status = "read"

\* the contacts of invocation l that have no address
NoAddress(l) ==
    { j \in 1..Len(loops[l].contacts) :
        PhoneClass(loops[l].contacts[j].phone) = "none" }

\* C8: after the dispatch of a campaign with one recipient without an
\* address, that recipient is failed for want of a phone number, no send was
\* made for it, every other recipient was sent to or counted as failed, and
\* the campaign is completed
C8_EmptyAddressFailsOnlyThatRecipient ==
    \A l \in RealLoops :
        (loops[l].pc = "done" /\ Cardinality(NoAddress(l)) = 1) =>
            \A b \in NoAddress(l) :
                /\ CampOf(l).recipients[b].status = "failed"
                /\ CampOf(l).recipients[b].error = "No phone number provided"
                /\ b \notin SentIndices(l)
                /\ \A j \in 1..Len(loops[l].contacts) :
                       j # b => (j \in SentIndices(l)
                                 \/ CampOf(l).recipients[j].status = "failed")
                /\ CampOf(l).progress.sent + CampOf(l).progress.failed
                       = CampOf(l).progress.total
                /\ CampOf(l).status = "completed"

C10_UntrackedAckChangesNothing ==
    \A msg \in (0..(nextMsg - 1)) \ DOMAIN messageRecipientMap, ack \in 0..4 :
        onMessageStatusUpdate(campaigns, messageRecipientMap, io, msg,
                              AckStatus(ack))
            = [campaigns |-> campaigns, io |-> io]

\* acknowledgements were handled, none of them of a tracked message, while
\* a campaign has a tracked message
C10_Witness ==
    /\ ackCount > 0
    /\ io.count["campaign-update"] = 0
    /\ messageRecipientMap # <<>>

\* the campaigns whose cancellation was asked while the loop was in the
\* pacing sleep after its first contact, with more contacts to come
CancelledAfterFirst ==
    { l \in DOMAIN cancelLog :
        /\ cancelLog[l].pc = "sleeping"
        /\ cancelLog[l].i = 1
        /\ cancelLog[l].sends = 1
        /\ Len(loops[l].contacts) >= 2 }

\* C11: a campaign cancelled after recipient #1 was sent and before
\* recipient #2 is processed has status cancelled, no send is made for it
\* after the request, and recipients #2 and later stay pending
C11_CancelStopsTheCampaign ==
    \A l \in CancelledAfterFirst :
        /\ CampOf(l).status = "cancelled"
        /\ Len(sendLog[l]) = cancelLog[l].sends
        /\ \A j \in 2..Len(CampOf(l).recipients) :
               CampOf(l).recipients[j].status = "pending"

\* C12: a request whose audience is empty is answered with an error and
\* leaves the stores, the id counter and the dispatch loops as they were; a
\* request that is accepted has at least one contact
C12_EmptyAudienceRejectedWithoutEffect ==
    [][http' # http =>
          \/ http'.status = 200 /\ http'.targets > 0
          \/ /\ http'.status = 400
             /\ UNCHANGED <<campaigns, campaignIdCounter, srvCampaigns, jobs,
                            loops, sendLog, nextMsg, messageRecipientMap, io>>]_vars

\* a request with an empty audience was rejected while a campaign exists
C12_Witness ==
    /\ http = Response("broadcast", 400, "No contacts found", 0)
    /\ Len(campaigns) > 0

\* the dispatch function of invocation l has settled no contact yet: it
\* awaits the import, the client, or the send to its first contact
NothingProcessed(l) ==
    /\ loops[l].pc \in {"import", "waiting", "sending"}
    /\ loops[l].i <= 1

\* C13: a campaign of which no recipient has been processed yet is queued,
\* its total is the number of its recipients, its sent and failed counters
\* are 0 and all its recipients are pending
C13_NewCampaignIsQueued ==
    \A l \in 1..Len(loops) :
        NothingProcessed(l) =>
            /\ CampOf(l).status = "queued"
            /\ CampOf(l).progress.total = Len(loops[l].contacts)
            /\ CampOf(l).progress.sent = 0
            /\ CampOf(l).progress.failed = 0
            /\ loops[l].kind = "real" =>
                   /\ Len(CampOf(l).recipients) = Len(loops[l].contacts)
                   /\ \A j \in 1..Len(CampOf(l).recipients) :
                          CampOf(l).recipients[j].status = "pending"

\* C14: no two campaigns ever created have the same id, and every campaign
\* created is the one its store holds under its id
C14_CampaignIdsAreUnique ==
    /\ \A i \in 1..Len(campaigns) : \A j \in 1..Len(campaigns) :
           i # j => campaigns[i].id # campaigns[j].id
    /\ \A i \in 1..Len(srvCampaigns) : \A j \in 1..Len(srvCampaigns) :
           i # j => srvCampaigns[i].id # srvCampaigns[j].id
    /\ \A k \in 1..Len(srvCampaigns) :
           CampaignsGet(srvCampaigns, srvCampaigns[k].id) = k

\* a dispatch function holds campaign k of server.ts and has not returned
Dispatching(k) ==
    \E l \in 1..Len(loops) :
        loops[l].kind = "direct" /\ loops[l].ref = k /\ loops[l].pc # "done"

\* a job for campaign k waits in the queue and a processor will take it
Claimable(k) ==
    /\ ProcessorRegistered
    /\ \E n \in 1..Len(jobs) : jobs[n].campaignId = srvCampaigns[k].id

\* C15: every campaign created reaches a terminal status: as long as it is
\* not completed or failed, a dispatch function that holds it has a step to
\* take (the import, a poll, the return of a send, the end of a sleep), or
\* a processor is there to take its job from the queue
C15_EveryCampaignIsDispatched ==
    \A k \in 1..Len(srvCampaigns) :
        \/ srvCampaigns[k].status \in {"completed", "failed"}
        \/ Dispatching(k)
        \/ Claimable(k)

\* the recipient an acknowledgement of the message of the send invocation l
\* awaits will update, once that send has returned
TargetOnceSent(l) ==
    LET loop == loops[l]
        contact == loop.contacts[loop.i]
        cs == [campaigns EXCEPT ![loop.ref] = MarkSent(@, contact, loop.msg)]
        map == MapAfterSend(messageRecipientMap, loop, CampOf(l), loop.msg)
    IN  AckTarget(cs, map, loop.msg)

\* C16: an acknowledgement of message m updates the recipient (campaign,
\* index) whose send returned m, also when recipients share a phone or a
\* name: for every send in flight, the recipient its acknowledgements will
\* update is the one of the loop variable
C16_AckUpdatesTheRecipientSentTo ==
    \A l \in RealLoops :
        loops[l].pc = "sending" => TargetOnceSent(l) = <<loops[l].ref, loops[l].i>>

\* C17: every step that changes a stored campaign (a recipient marked sent
\* or failed, a status changed by an acknowledgement, the campaign's status)
\* also emits to the observers
C17_EveryMutationIsEmitted ==
    [][/\ \A k \in 1..Len(campaigns) :
              campaigns'[k] # campaigns[k] => io' # io
       /\ \A k \in 1..Len(srvCampaigns) :
              srvCampaigns'[k] # srvCampaigns[k] => io' # io]_vars

\* the failures counted on a campaign are the error entries it holds, and a
\* failed campaign holds the reason
FailuresRecorded(camp) ==
    /\ Len(camp.progress.errors) = camp.progress.failed
    /\ camp.status = "failed" => camp.progress.errors # <<>>

\* C18: in every state every campaign has as many entries in
\* progress.errors as progress.failed counts, and a campaign whose status is
\* failed has the reason recorded on it
C18_EveryFailureIsRecorded ==
    /\ \A k \in 1..Len(campaigns) : FailuresRecorded(campaigns[k])
    /\ \A k \in 1..Len(srvCampaigns) : FailuresRecorded(srvCampaigns[k])

\* the contacts of invocation l with a valid address for which
\* client.sendMessage was never called: the loop found the client not ready
\* when it came to them
Unattempted(l) ==
    { j \in 1..Len(loops[l].contacts) :
        PhoneClass(loops[l].contacts[j].phone) = "ok" /\ j \notin SentIndices(l) }

\* C19: a dispatch that ended with contacts it could not attempt, the client
\* being not ready in the middle of the run, has left the campaign failed,
\* has not counted a failure for each of these contacts, and has left their
\* recipients pending
C19_TransportLossFailsTheCampaignOnce ==
    \A l \in RealLoops :
        (loops[l].pc = "done" /\ Unattempted(l) # {}) =>
            /\ CampOf(l).status = "failed"
            /\ CampOf(l).progress.sent + CampOf(l).progress.failed
                   + Cardinality(Unattempted(l)) <= CampOf(l).progress.total
            /\ \A j \in Unattempted(l) : CampOf(l).recipients[j].status = "pending"

\* C20: a campaign whose status is completed has no pending recipient
C20_CompletedHasNoPending ==
    \A k \in 1..Len(campaigns) :
        campaigns[k].status = "completed" => Pending(campaigns[k]) = 0

\* C21: a step that assigns a recipient's messageId (the dispatch loop
\* marking it sent) finds the recipient pending and without a messageId: a
\* recipient that is already sent, delivered, read or failed is never set
\* to sent, and a messageId is assigned at most once
C21_SentOnlyFromPending ==
    [][\A k \in 1..Len(campaigns) : \A j \in 1..Len(campaigns[k].recipients) :
          campaigns'[k].recipients[j].messageId # campaigns[k].recipients[j].messageId
              => /\ campaigns[k].recipients[j].status = "pending"
                 /\ campaigns[k].recipients[j].messageId = 0]_vars

\* C22: no send is started while the transport reports not-ready: whenever
\* a dispatch loop (of a campaign or of a document broadcast) called
\* client.sendMessage, isClientReady() was true at the call
C22_NoSendWhileNotReady ==
    \A l \in 1..Len(sendLog) : \A n \in 1..Len(sendLog[l]) : sendLog[l][n].ready

\* C23: between two consecutive sends of a campaign the loop waits the
\* inter-message delay: no step of a dispatch loop both ends the wait for
\* one call of client.sendMessage (it returned or threw) and starts the
\* next call
C23_DelayBetweenSends ==
    [][\A l \in 1..Len(loops) :
          Len(sendLog'[l]) > Len(sendLog[l]) => loops[l].pc # "sending"]_vars

\* C24: no pacing sleep follows the last recipient: a dispatch loop that is
\* in its pacing sleep has a recipient left to go on with
C24_NoSleepAfterLastRecipient ==
    \A l \in 1..Len(loops) :
        loops[l].pc = "sleeping" => loops[l].i < Len(loops[l].contacts)

\* C25: a completed campaign is immutable: no step changes the status, the
\* progress counters or any recipient of a campaign that is completed
C25_CompletedIsImmutable ==
    [][\A k \in 1..Len(campaigns) :
          campaigns[k].status = "completed" => campaigns'[k] = campaigns[k]]_vars

\* C28: at most one client initialization is outstanding at a time: a step
\* that calls client.initialize() is taken when no earlier initialization is
\* unfinished and the client is not ready
C28_OneInitializationAtATime ==
    [][Outstanding(conn') > Outstanding(conn)
          => Outstanding(conn) = 0 /\ ~isReady]_vars

\* C26: no acknowledgement of a message a campaign sent is lost: once the
\* dispatch loop has registered the message in messageRecipientMap, the
\* recipient it is registered for shows the status of the latest
\* acknowledgement the transport emitted for the message, also when that
\* acknowledgement was emitted before the registration
C26_EarlyAckIsNotLost ==
    \A m \in DOMAIN acked :
        LET t == AckTarget(campaigns, messageRecipientMap, m)
        IN  t # <<0, 0>> =>
                campaigns[t[1]].recipients[t[2]].status = AckStatus(acked[m])

\* C30: the two acknowledgement handlers agree: for every message the
\* transport acknowledged, the status the message-status route serves from
\* messageStatusDb is the status the handler of client.ts computed from
\* the same acknowledgement
C30_AckHandlersAgree ==
    \A m \in DOMAIN acked :
        StatusOf(messageStatusDb, m) = AckStatus(acked[m])

\* C27: every chat id passed to client.sendMessage is 12 to 15 digits
\* followed by "@c.us": the digits are the contact's cleaned phone, with 91
\* in front when it cleans to 10 digits; so a contact whose cleaned phone is
\* empty, shorter than 12 (and not 10) or longer than 15 is never sent to
C27_ChatIdsAreRoutable ==
    \A l \in 1..Len(sendLog) : \A n \in 1..Len(sendLog[l]) :
        LET e == sendLog[l][n]
            clean == CleanPhone(loops[l].contacts[e.i].phone)
            digits == SubSeq(e.chatId, 1, Len(e.chatId) - 1)
        IN  /\ e.chatId[Len(e.chatId)] = "@c.us"
            /\ Len(digits) \in 12..15
            /\ \A d \in 1..Len(digits) : IsDigit(digits[d])
            /\ digits = IF Len(clean) = 10 THEN <<"9", "1">> \o clean ELSE clean

\* a 10-digit phone was sent to with 91 in front, and a loop is over whose
\* contact has a phone of 16 digits and was never sent to
C27_Witness ==
    /\ \E l \in 1..Len(sendLog) : \E n \in 1..Len(sendLog[l]) :
           /\ Len(CleanPhone(loops[l].contacts[sendLog[l][n].i].phone)) = 10
           /\ SubSeq(sendLog[l][n].chatId, 1, 2) = <<"9", "1">>
    /\ \E l \in 1..Len(loops) :
           /\ loops[l].pc = "done"
           /\ Len(CleanPhone(loops[l].contacts[1].phone)) > 15
           /\ sendLog[l] = <<>>

\* C29: waitForClient settles, and settles once: its interval timer is set
\* exactly while the caller is suspended in it; a poll that sees the client
\* ready resolves it; a poll that does not either leaves it pending, with
\* no more than the timeout elapsed, or rejects it, and then it is the
\* first poll after the timeout; the timer is cleared when it settles, so
\* no later poll runs
C29_WaitSettlesOnce ==
    [][/\ \A l \in 1..Len(loops') :
              loops'[l].timer <=> loops'[l].pc = "waiting"
       /\ \A l \in 1..Len(loops) :
              loops[l].pc = "waiting" /\ loops'[l] # loops[l] =>
                  IF isReady
                  THEN /\ loops'[l].pc # "waiting"
                       /\ srvCampaigns'[loops[l].ref].status # "failed"
                  ELSE IF loops'[l].pc = "waiting"
                  THEN /\ loops'[l].polls = loops[l].polls + 1
                       /\ loops'[l].polls * PollInterval <= WaitTimeout
                  ELSE /\ loops'[l].pc = "done"
                       /\ srvCampaigns'[loops[l].ref].status = "failed"
                       /\ loops'[l].polls = loops[l].polls + 1
                       /\ loops'[l].polls * PollInterval + 1 > WaitTimeout
                       /\ loops'[l].polls * PollInterval <= WaitTimeout + PollInterval
      ]_vars

\* one waitForClient was rejected by a poll that ran just after the timeout
\* and its timer is cleared, and another dispatch has gone on to send
C29_Witness ==
    /\ \E l \in DirectLoops :
           /\ loops[l].pc = "done"
           /\ ~loops[l].timer
           /\ loops[l].polls * PollInterval = WaitTimeout
           /\ srvCampaigns[loops[l].ref].status = "failed"
    /\ \E l \in DirectLoops : Len(sendLog[l]) > 0

====
